---- MODULE Spec2Model ----
(***************************************************************************)
(* Model of bin/copy_videos.py: the migration script that reads lists of   *)
(* video ids, downloads each video's best rendition from the source        *)
(* account, uploads it to the destination account and records the          *)
(* old_id,new_id pairs in a CSV file per list.                             *)
(***************************************************************************)
EXTENDS Integers, Sequences, FiniteSets, TLC

(* ------------------------------------------------------------------ *)
(* Bounds of the model                                                 *)
(* ------------------------------------------------------------------ *)

\* most input lists on the command line
MaxArgs == 2
\* most identifiers over all the input lists of one run
MaxIds == 3
\* most renditions of one video in the rendition-selection specification
MaxRenditions == 3
\* longest stream of the download specification, in whole chunks
MaxChunks == 2

(* ------------------------------------------------------------------ *)
(* Values                                                              *)
(* ------------------------------------------------------------------ *)

\* Python's None
None == "None"

\* bytes asked of the response per read
CHUNK == 4096

DOWNLOAD_DIR == "./downloads/"

\* video ids of the source account, as they stand on the lines of a list
Ids == {"A", "B"}

\* the input lists on disk, as path components
InputFiles == {<<"a", "l1">>, <<"b", "l2">>}

\* the paths a command line may name: one of them is no file, and has the
\* base name of one that is
Paths == InputFiles \cup {<<"c", "l1">>}

Codecs == {"H264", "M2TS", "VP6"}

\* rendition urls as character sequences; NoUrl is the url that is None
NoUrl    == <<None>>
HttpUrl  == <<"h", "t", "t", "p", ":">>
HttpsUrl == <<"h", "t", "t", "p", "s">>
RtmpUrl  == <<"r", "t", "m", "p", ":">>
ShortUrl == <<"h", "t", "t">>
Urls == {NoUrl, HttpUrl, HttpsUrl, RtmpUrl, ShortUrl}

Sizes == {10, 30, 50}

Renditions == [url : Urls, size : Sizes, video_codec : Codecs]

\* best_rendition while it is None
NoRendition == [url |-> NoUrl, size |-> 0, video_codec |-> None]

\* v.renditions while it is None
NoRenditions == <<NoRendition>>

\* v while it is None
NoVideo == [id |-> None, renditions |-> <<>>, filename |-> None, connection |-> None]

RECURSIVE SeqsUpTo(_, _)
SeqsUpTo(S, n) ==
  IF n = 0 THEN {<<>>}
  ELSE LET shorter == SeqsUpTo(S, n - 1)
       IN  shorter \cup {Append(s, e) : s \in {t \in shorter : Len(t) = n - 1}, e \in S}

Min(a, b) == IF a <= b THEN a ELSE b

Last(s) == s[Len(s)]

(* ------------------------------------------------------------------ *)
(* Pure helpers of the script                                          *)
(* ------------------------------------------------------------------ *)

\* str.startswith
StartsWith(s, prefix) ==
  /\ Len(s) >= Len(prefix)
  /\ SubSeq(s, 1, Len(prefix)) = prefix

\* os.path.isfile of an input path
IsFile(path) == path \in InputFiles

\* os.path.basename of a path given by its components
Basename(path) == path[Len(path)]

\* './old_new_ids-' + os.path.basename(fname) + '.csv'
CsvName(fname) == "./old_new_ids-" \o Basename(fname) \o ".csv"

\* str() of an id: an id is text already, and None prints as the word None
Str(x) == IF x = None THEN "None" ELSE x

HeaderRow == <<"old_id", "new_id">>

\* the line record_old_new_ids writes
MappingRow(oldid, newid) == <<Str(oldid), Str(newid)>>

\* a rendition the loop of download_video considers
Eligible(r) == r.url # NoUrl /\ StartsWith(r.url, <<"h", "t", "t", "p">>)


\* BestRendition, but a rendition as large as the best takes its place
RECURSIVE BestRendition_LastOfTies(_, _)
BestRendition_LastOfTies(renditions, best_rendition) ==
  IF renditions = <<>> THEN best_rendition
  ELSE LET rendition == Head(renditions)
           next == IF Eligible(rendition)
                   THEN IF best_rendition = NoRendition THEN rendition
                        ELSE IF rendition.size >= best_rendition.size THEN rendition
                        ELSE best_rendition
                   ELSE best_rendition
       IN  BestRendition_LastOfTies(Tail(renditions), next)

\* the loop over v.renditions that keeps the best rendition seen so far
RECURSIVE BestRendition(_, _)
BestRendition(renditions, best_rendition) ==
  IF renditions = <<>> THEN best_rendition
  ELSE LET rendition == Head(renditions)
           next == IF Eligible(rendition)
                   THEN IF best_rendition = NoRendition THEN rendition
                        ELSE IF rendition.size > best_rendition.size THEN rendition
                        ELSE best_rendition
                   ELSE best_rendition
       IN  BestRendition(Tail(renditions), next)

\* the extension the codec gives the local file
Extension(video_codec) ==
  IF video_codec = "H264" THEN ".mp4"
  ELSE IF video_codec = "M2TS" THEN ".m2ts"
  ELSE ""

\* DOWNLOAD_DIR + str(id) + extension
LocalName(id, video_codec) == DOWNLOAD_DIR \o Str(id) \o Extension(video_codec)

(* ------------------------------------------------------------------ *)
(* The collaborators: the platform library and the transport           *)
(* ------------------------------------------------------------------ *)

\* what Video(id=..., _connection=OLDCONN, ...) builds for a video the source has
FoundVideo(id, renditions) ==
  [id |-> id, renditions |-> renditions, filename |-> None, connection |-> "OLDCONN"]

\* the id the destination gives the n-th video created in it: ids are unique
\* over the platform, so it is none of the source's
CreatedId(n) == "N" \o ToString(n)

\* v.save() that the destination accepts: a video without id is created and
\* gets its id from the destination, a video with an id is updated in place
Save(video, count) ==
  IF video.id = None
  THEN [v |-> [video EXCEPT !.id = CreatedId(count + 1)], created |-> count + 1]
  ELSE [v |-> video, created |-> count]

\* the response urlopen returns: a stream of len bytes, of which one read
\* delivers at most seg
Response(len, seg) == [len |-> len, seg |-> seg]

\* req before urlopen returned
NoResponse == Response(0, 0)

\* the errors urlopen raises
TransportErrors == {"HTTPError", "URLError"}

\* req.read(amt) at offset pos: the bytes pos .. pos + len - 1 of the stream
Read(response, pos, amt) ==
  [off |-> pos, len |-> Min(Min(amt, response.seg), response.len - pos)]


\* DownloadLoop, but a read short of CHUNK bytes is taken for the end
RECURSIVE DownloadLoop_StopsOnShortRead(_, _, _, _)
DownloadLoop_StopsOnShortRead(response, pos, fp, downloaded) ==
  LET chunk == Read(response, pos, CHUNK)
  IN  IF chunk.len < CHUNK
      THEN [fp |-> fp, downloaded |-> downloaded + chunk.len]
      ELSE DownloadLoop_StopsOnShortRead(response, pos + chunk.len, Append(fp, chunk),
                                         downloaded + chunk.len)

\* the while loop of download_video from offset pos on: fp is what the local
\* file holds, downloaded the byte count
RECURSIVE DownloadLoop(_, _, _, _)
DownloadLoop(response, pos, fp, downloaded) ==
  LET chunk == Read(response, pos, CHUNK)
  IN  IF chunk.len = 0
      THEN [fp |-> fp, downloaded |-> downloaded + chunk.len]
      ELSE DownloadLoop(response, pos + chunk.len, Append(fp, chunk),
                        downloaded + chunk.len)

(* ------------------------------------------------------------------ *)
(* State                                                               *)
(* ------------------------------------------------------------------ *)

VARIABLES
  argv,            \* sys.argv[1:] from the name the main loop is at on
  argIdx,          \* the position of that name on the command line
  pc,              \* where the script is
  lines,           \* the lines of the list being processed
  lineIdx,         \* the line the for loop is at
  idsRead,         \* lines read from input lists so far
  csvFiles,        \* the mapping files on disk: name -> rows
  csv,             \* the name of the mapping file that is open, or None
  v,               \* the video in flight, or NoVideo
  best_rendition,  \* the rendition picked for it, or NoRendition
  req,             \* the response being read, or NoResponse
  downloads,       \* the files on disk under DOWNLOAD_DIR: name -> chunks
  created,         \* videos created in the destination account so far
  outcomes,        \* how the transfer of each line processed so far ended
  trace,           \* the stages the transfer of the current line went through
  dirBefore,       \* downloads as the transfer of the current line began
  exception,       \* the exception that ended the process, or None
  exitCode         \* the exit status of the process, or -1 while it runs

vars == <<argv, argIdx, pc, lines, lineIdx, idsRead, csvFiles, csv, v, best_rendition,
          req, downloads, created, outcomes, trace, dirBefore, exception, exitCode>>

\* a mapping file a previous run left behind
StaleRows == <<HeaderRow, MappingRow("Z", CreatedId(0))>>

\* a file a previous run left behind under DOWNLOAD_DIR
StaleData == <<[off |-> 0, len |-> 7]>>

CsvNames == {CsvName(p) : p \in Paths}

NoFiles == [n \in {} |-> <<>>]

\* the file system with file name holding data
WriteFile(files, name, data) ==
  [n \in DOMAIN files \cup {name} |-> IF n = name THEN data ELSE files[n]]

\* the lists an input file may hold
InputLists(n) == SeqsUpTo(Ids, n)

\* the renditions the source reports for a video in a run of the whole script
SourceRenditions ==
  { <<>>,
    <<[url |-> RtmpUrl, size |-> 50, video_codec |-> "H264"]>>,
    <<[url |-> HttpUrl, size |-> 10, video_codec |-> "M2TS"],
      [url |-> HttpUrl, size |-> 50, video_codec |-> "H264"]>> }

\* the responses of the transport in a run of the whole script
SourceResponses == {Response(CHUNK + 1, CHUNK)}

\* the state the script starts in, but for the command line and the disk
Start ==
  /\ argIdx = 1
  /\ pc = "main"
  /\ lines = <<>>
  /\ lineIdx = 1
  /\ idsRead = 0
  /\ csv = None
  /\ v = NoVideo
  /\ best_rendition = NoRendition
  /\ req = NoResponse
  /\ created = 0
  /\ outcomes = <<>>
  /\ trace = <<>>
  /\ dirBefore = NoFiles
  /\ exception = None
  /\ exitCode = -1

Init ==
  /\ Start
  /\ argv \in SeqsUpTo(Paths, MaxArgs)
  /\ \E stale \in SUBSET CsvNames : csvFiles = [n \in stale |-> StaleRows]
  /\ downloads = NoFiles

(* ------------------------------------------------------------------ *)
(* The script, step by step                                            *)
(* ------------------------------------------------------------------ *)

fname == Head(argv)
oldId == lines[lineIdx]

\* the transfer of the current line ended with outcome: the for loop goes on
NextLine(outcome) ==
  /\ outcomes' = Append(outcomes, outcome)
  /\ lineIdx' = lineIdx + 1
  /\ pc' = "loop"

\* the process ends on the uncaught exception exc
Die(exc) ==
  /\ pc' = "crashed"
  /\ exception' = exc
  /\ exitCode' = 1


\* ListMissing, but a missing list ends the process
ListMissing_Exits ==
  /\ pc = "main"
  /\ argv # <<>>
  /\ ~IsFile(fname)
  /\ pc' = "exited"
  /\ exception' = "SystemExit"
  /\ exitCode' = 1
  /\ UNCHANGED <<argv, argIdx, lines, lineIdx, idsRead, csvFiles, csv, v, best_rendition,
                 req, downloads, created, outcomes, trace, dirBefore>>

\* process_videos_list: fname is no file
ListMissing ==
  /\ pc = "main"
  /\ argv # <<>>
  /\ ~IsFile(fname)
  /\ argv' = Tail(argv)
  /\ argIdx' = argIdx + 1
  /\ UNCHANGED <<pc, lines, lineIdx, idsRead, csvFiles, csv, v, best_rendition, req,
                 downloads, created, outcomes, trace, dirBefore, exception, exitCode>>


\* AbortCsvExists, but the mapping file is opened for writing all the same
AbortCsvExists_Overwrites ==
  /\ pc = "main"
  /\ argv # <<>>
  /\ IsFile(fname)
  /\ CsvName(fname) \in DOMAIN csvFiles
  /\ \E ls \in InputLists(MaxIds - idsRead) :
       /\ lines' = ls
       /\ idsRead' = idsRead + Len(ls)
  /\ csvFiles' = WriteFile(csvFiles, CsvName(fname), <<HeaderRow>>)
  /\ csv' = CsvName(fname)
  /\ pc' = "loop"
  /\ UNCHANGED <<argv, argIdx, lineIdx, v, best_rendition, req, downloads, created,
                 outcomes, trace, dirBefore, exception, exitCode>>

\* process_videos_list: the mapping file is there already; sys.exit(1) ends
\* the function and its locals with it
AbortCsvExists ==
  /\ pc = "main"
  /\ argv # <<>>
  /\ IsFile(fname)
  /\ CsvName(fname) \in DOMAIN csvFiles
  /\ pc' = "exited"
  /\ exception' = "SystemExit"
  /\ exitCode' = 1
  /\ UNCHANGED <<argv, argIdx, lines, lineIdx, idsRead, csvFiles, csv, v, best_rendition,
                 req, downloads, created, outcomes, trace, dirBefore>>

\* process_videos_list: the lines are read, the mapping file is created and
\* gets its header row
OpenList ==
  /\ pc = "main"
  /\ argv # <<>>
  /\ IsFile(fname)
  /\ \E ls \in InputLists(MaxIds - idsRead) :
       /\ lines' = ls
       /\ idsRead' = idsRead + Len(ls)
  /\ CsvName(fname) \notin DOMAIN csvFiles
  /\ csvFiles' = WriteFile(csvFiles, CsvName(fname), <<HeaderRow>>)
  /\ csv' = CsvName(fname)
  /\ pc' = "loop"
  /\ UNCHANGED <<argv, argIdx, lineIdx, v, best_rendition, req, downloads, created,
                 outcomes, trace, dirBefore, exception, exitCode>>


\* FetchNotFound, but the loop records the video it did not get
FetchNotFound_WritesRow ==
  /\ pc = "loop"
  /\ lineIdx <= Len(lines)
  /\ v' = NoVideo
  /\ trace' = <<"FETCHING", "SKIPPED">>
  /\ dirBefore' = downloads
  /\ csvFiles' = [csvFiles EXCEPT ![csv] = Append(@, MappingRow(oldId, None))]
  /\ NextLine("NotFound")
  /\ UNCHANGED <<argv, argIdx, lines, idsRead, csv, best_rendition, req,
                 downloads, created, exception, exitCode>>

\* download_video: the source has no video of that id
FetchNotFound ==
  /\ pc = "loop"
  /\ lineIdx <= Len(lines)
  /\ v' = NoVideo
  /\ trace' = <<"FETCHING", "SKIPPED">>
  /\ dirBefore' = downloads
  /\ NextLine("NotFound")
  /\ UNCHANGED <<argv, argIdx, lines, idsRead, csvFiles, csv, best_rendition, req,
                 downloads, created, exception, exitCode>>

\* download_video: the source returns the video
FetchFound ==
  /\ pc = "loop"
  /\ lineIdx <= Len(lines)
  /\ \E renditions \in SourceRenditions : v' = FoundVideo(oldId, renditions)
  /\ trace' = <<"FETCHING", "SELECTING_RENDITION">>
  /\ dirBefore' = downloads
  /\ pc' = "select"
  /\ UNCHANGED <<argv, argIdx, lines, lineIdx, idsRead, csvFiles, csv, best_rendition,
                 req, downloads, created, outcomes, exception, exitCode>>

\* download_video: no rendition can be fetched
SelectNone ==
  /\ pc = "select"
  /\ BestRendition(v.renditions, NoRendition) = NoRendition
  /\ v' = NoVideo
  /\ trace' = Append(trace, "SKIPPED")
  /\ NextLine("NoRendition")
  /\ UNCHANGED <<argv, argIdx, lines, idsRead, csvFiles, csv, best_rendition, req,
                 downloads, created, dirBefore, exception, exitCode>>

\* download_video: the best rendition is picked
SelectBest ==
  /\ pc = "select"
  /\ BestRendition(v.renditions, NoRendition) # NoRendition
  /\ best_rendition' = BestRendition(v.renditions, NoRendition)
  /\ trace' = Append(trace, "DOWNLOADING")
  /\ pc' = "download"
  /\ UNCHANGED <<argv, argIdx, lines, lineIdx, idsRead, csvFiles, csv, v, req,
                 downloads, created, outcomes, dirBefore, exception, exitCode>>

\* the names download_video can read where it handles an error of urlopen
BoundNames ==
  {"id", "v", "best_rendition", "rendition", "fname", "req", "downloaded", "CHUNK",
   "fp", "chunk", "e", "logger", "urllib2", "OLDCONN", "NEWCONN", "DOWNLOAD_DIR",
   "MY_CUSTOM_FIELDS", "name"}

\* the except clauses of download_video: the warning is formatted from e and
\* url, then the function returns False
ExceptTransportError(e) ==
  IF "url" \in BoundNames THEN [raised |-> None, returns |-> "False"]
  ELSE [raised |-> "NameError", returns |-> None]


\* OpenUrlFails, but the local file is opened before the url
OpenUrlFails_CreatesFile ==
  /\ pc = "download"
  /\ \E e \in TransportErrors :
       IF ExceptTransportError(e).raised # None
       THEN Die(ExceptTransportError(e).raised)
       ELSE Die("AttributeError")
  /\ outcomes' = Append(outcomes, "TransportError")
  /\ downloads' = WriteFile(downloads, LocalName(v.id, best_rendition.video_codec), <<>>)
  /\ UNCHANGED <<argv, argIdx, lines, lineIdx, idsRead, csvFiles, csv, v, best_rendition,
                 req, created, trace, dirBefore>>

\* download_video: urlopen raises, the except clause runs
OpenUrlFails ==
  /\ pc = "download"
  /\ \E e \in TransportErrors :
       IF ExceptTransportError(e).raised # None
       THEN Die(ExceptTransportError(e).raised)
       ELSE Die("AttributeError")
  /\ outcomes' = Append(outcomes, "TransportError")
  /\ UNCHANGED <<argv, argIdx, lines, lineIdx, idsRead, csvFiles, csv, v, best_rendition,
                 req, downloads, created, trace, dirBefore>>

\* download_video: urlopen returns the response
OpenUrlDone(responses) ==
  /\ pc = "download"
  /\ req' \in responses
  /\ pc' = "read"
  /\ UNCHANGED <<argv, argIdx, lines, lineIdx, idsRead, csvFiles, csv, v, best_rendition,
                 downloads, created, outcomes, trace, dirBefore, exception, exitCode>>

\* download_video: the response is copied to the local file, which is made
\* the video's file
ReadAll ==
  /\ pc = "read"
  /\ downloads' = WriteFile(downloads, LocalName(v.id, best_rendition.video_codec),
                            DownloadLoop(req, 0, <<>>, 0).fp)
  /\ v' = [v EXCEPT !.filename = LocalName(v.id, best_rendition.video_codec)]
  /\ best_rendition' = NoRendition
  /\ req' = NoResponse
  /\ trace' = Append(trace, "UPLOADING")
  /\ pc' = "upload"
  /\ UNCHANGED <<argv, argIdx, lines, lineIdx, idsRead, csvFiles, csv, created,
                 outcomes, dirBefore, exception, exitCode>>


\* Prepared, but the id of the source is left on the video
Prepared_KeepsId(video) ==
  [video EXCEPT !.connection = "NEWCONN", !.renditions = NoRenditions]

\* upload_video: v as it is handed to save()
Prepared(video) ==
  [video EXCEPT !.connection = "NEWCONN", !.id = None, !.renditions = NoRenditions]


\* UploadRejected, but without the except clause for IllegalValueError
UploadRejected_Raises ==
  /\ pc = "upload"
  /\ Die("IllegalValueError")
  /\ outcomes' = Append(outcomes, "Rejected")
  /\ UNCHANGED <<argv, argIdx, lines, lineIdx, idsRead, csvFiles, csv, v, best_rendition,
                 req, downloads, created, trace, dirBefore>>

\* upload_video: the destination rejects the video
UploadRejected ==
  /\ pc = "upload"
  /\ v' = NoVideo
  /\ trace' = Append(trace, "SKIPPED")
  /\ NextLine("Rejected")
  /\ UNCHANGED <<argv, argIdx, lines, idsRead, csvFiles, csv, best_rendition, req,
                 downloads, created, dirBefore, exception, exitCode>>

\* upload_video: the destination takes the video
UploadAccepted ==
  /\ pc = "upload"
  /\ v' = Save(Prepared(v), created).v
  /\ created' = Save(Prepared(v), created).created
  /\ trace' = Append(trace, "DONE")
  /\ pc' = "record"
  /\ UNCHANGED <<argv, argIdx, lines, lineIdx, idsRead, csvFiles, csv, best_rendition,
                 req, downloads, outcomes, dirBefore, exception, exitCode>>

\* process_videos_list: the row is written, then v.id is set back to the old id
RecordIds ==
  /\ pc = "record"
  /\ csvFiles' = [csvFiles EXCEPT ![csv] = Append(@, MappingRow(oldId, v.id))]
  /\ v' = [v EXCEPT !.id = oldId]
  /\ NextLine("Migrated")
  /\ UNCHANGED <<argv, argIdx, lines, idsRead, csv, best_rendition, req,
                 downloads, created, trace, dirBefore, exception, exitCode>>

\* process_videos_list: the lines are exhausted, the mapping file is closed and
\* the function returns, which ends its locals
CloseList ==
  /\ pc = "loop"
  /\ lineIdx > Len(lines)
  /\ csv' = None
  /\ v' = NoVideo
  /\ lines' = <<>>
  /\ lineIdx' = 1
  /\ outcomes' = <<>>
  /\ trace' = <<>>
  /\ dirBefore' = NoFiles
  /\ argv' = Tail(argv)
  /\ argIdx' = argIdx + 1
  /\ pc' = "main"
  /\ UNCHANGED <<idsRead, csvFiles, best_rendition, req,
                 downloads, created, exception, exitCode>>

\* the main loop is through the arguments
Finish ==
  /\ pc = "main"
  /\ argv = <<>>
  /\ pc' = "done"
  /\ exitCode' = 0
  /\ UNCHANGED <<argv, argIdx, lines, lineIdx, idsRead, csvFiles, csv, v, best_rendition,
                 req, downloads, created, outcomes, trace, dirBefore, exception>>

Next ==
  \/ ListMissing
  \/ AbortCsvExists
  \/ OpenList
  \/ FetchNotFound
  \/ FetchFound
  \/ SelectNone
  \/ SelectBest
  \/ OpenUrlFails
  \/ OpenUrlDone(SourceResponses)
  \/ ReadAll
  \/ UploadRejected
  \/ UploadAccepted
  \/ RecordIds
  \/ CloseList
  \/ Finish

Spec == Init /\ [][Next]_vars

(* ------------------------------------------------------------------ *)
(* The rendition selection and the download on their own               *)
(* ------------------------------------------------------------------ *)

\* the script inside download_video for the one line of one list
InVideo(id) ==
  /\ argv = <<<<"a", "l1">>>>
  /\ argIdx = 1
  /\ lines = <<id>>
  /\ lineIdx = 1
  /\ idsRead = 1
  /\ csvFiles = [n \in {CsvName(<<"a", "l1">>)} |-> <<HeaderRow>>]
  /\ csv = CsvName(<<"a", "l1">>)
  /\ req = NoResponse
  /\ created = 0
  /\ outcomes = <<>>
  /\ exception = None
  /\ exitCode = -1

\* the renditions the selection is tried on
SelectRenditions == [url : Urls, size : Sizes, video_codec : {"H264"}]

InitSelect ==
  /\ InVideo("A")
  /\ pc = "select"
  /\ v \in {FoundVideo("A", rs) : rs \in SeqsUpTo(SelectRenditions, MaxRenditions)}
  /\ best_rendition = NoRendition
  /\ downloads = NoFiles
  /\ dirBefore = NoFiles
  /\ trace = <<"FETCHING", "SELECTING_RENDITION">>

NextSelect ==
  \/ SelectNone
  \/ SelectBest

SpecSelect == InitSelect /\ [][NextSelect]_vars

\* the stream lengths the download is tried on: around each multiple of CHUNK
StreamLens ==
  {n \in UNION {{k * CHUNK - 1, k * CHUNK, k * CHUNK + 1} : k \in 0 .. MaxChunks} : n >= 0}

\* the most bytes the transport hands over in one read
Segments == {CHUNK \div 3, CHUNK, 2 * CHUNK}

StreamResponses == {Response(n, seg) : n \in StreamLens, seg \in Segments}

InitDownload ==
  \E id \in Ids, codec \in Codecs :
    /\ InVideo(id)
    /\ pc = "download"
    /\ best_rendition = [url |-> HttpUrl, size |-> 50, video_codec |-> codec]
    /\ v = FoundVideo(id, <<best_rendition>>)
    /\ downloads \in {NoFiles, [n \in {LocalName(id, codec)} |-> StaleData]}
    /\ dirBefore = downloads
    /\ trace = <<"FETCHING", "SELECTING_RENDITION", "DOWNLOADING">>

NextDownload ==
  \/ OpenUrlFails
  \/ OpenUrlDone(StreamResponses)
  \/ ReadAll

SpecDownload == InitDownload /\ [][NextDownload]_vars

(* ------------------------------------------------------------------ *)
(* Properties                                                          *)
(* ------------------------------------------------------------------ *)

\* the ids of the first k lines whose transfer ended with a row, in line order
RECURSIVE MigratedUpTo(_)
MigratedUpTo(k) ==
  IF k = 0 THEN <<>>
  ELSE IF outcomes[k] = "Migrated" THEN Append(MigratedUpTo(k - 1), lines[k])
  ELSE MigratedUpTo(k - 1)

\* the old_id column of rows
OldIds(rows) == [i \in 1 .. Len(rows) |-> rows[i][1]]

\* C1: while a list is processed and when its lines are exhausted, the mapping
\* file holds the header row and then one row for each line migrated so far,
\* in line order, and none for a line that was not found; every line before
\* the current one has its outcome, and a list, once begun, stops short of its
\* end on a transport error only, never on a NotFound.
C1_RowsOfMigratedInOrder ==
  csv # None =>
    /\ Head(csvFiles[csv]) = HeaderRow
    /\ OldIds(Tail(csvFiles[csv])) = MigratedUpTo(Len(outcomes))
    /\ lineIdx <= Len(lines) + 1
    /\ pc # "exited"
    /\ pc # "crashed" => Len(outcomes) = lineIdx - 1
    /\ pc = "crashed" => Last(outcomes) = "TransportError"

C1_Witness ==
  /\ pc = "loop"
  /\ lines = <<"A", "B", "A">>
  /\ lineIdx > Len(lines)
  /\ outcomes = <<"Migrated", "NotFound", "Migrated">>
  /\ OldIds(csvFiles[csv]) = <<"old_id", "A", "A">>

\* C2: once urlopen raised a transport error, the video is given up (v is
\* None), nothing ended the process and the loop is at the next line.
C2_TransportErrorSkipsVideo ==
  (outcomes # <<>> /\ Last(outcomes) = "TransportError") =>
    /\ pc = "loop"
    /\ exception = None
    /\ exitCode = -1
    /\ v = NoVideo
    /\ lineIdx = Len(outcomes) + 1

\* C3: a step of upload_video in which the destination creates no video gives
\* the video up, writes no row and leaves the loop at the next line of the
\* same list, with the process running.
C3_RejectedVideoIsSkipped ==
  [][(pc = "upload" /\ created' = created) =>
       /\ v' = NoVideo
       /\ csvFiles' = csvFiles
       /\ pc' = "loop"
       /\ lineIdx' = lineIdx + 1
       /\ lines' = lines
       /\ exception' = None
       /\ exitCode' = -1]_vars

C3_Witness ==
  /\ pc = "loop"
  /\ outcomes = <<"Rejected", "Migrated">>
  /\ OldIds(csvFiles[csv]) = <<"old_id", lines[2]>>

\* C4: where the name the main loop takes is a file whose mapping file exists,
\* the next step ends the process with exit status 1 and changes neither a
\* mapping file nor the download directory nor the destination; nothing
\* happens after the exit, so no later list is processed.
C4_ExistingCsvAborts ==
  [][/\ (pc = "main" /\ argv # <<>> /\ Head(argv) \in InputFiles
           /\ CsvName(Head(argv)) \in DOMAIN csvFiles)
          => /\ pc' = "exited"
             /\ exitCode' = 1
             /\ UNCHANGED <<csvFiles, downloads, created, argv, idsRead>>
     /\ pc = "exited" => UNCHANGED vars]_vars

C4_Witness ==
  /\ pc = "exited"
  /\ exitCode = 1
  /\ Len(argv) = 2
  /\ argv[2] \in InputFiles
  /\ csvFiles[CsvName(Head(argv))] = StaleRows
  /\ created = 0
  /\ downloads = NoFiles

\* C5: where the name the main loop takes is no file, the next step takes the
\* main loop to the next name and changes neither a mapping file nor the
\* download directory nor the destination, and the process runs on.
C5_MissingListIsSkipped ==
  [][(pc = "main" /\ argv # <<>> /\ Head(argv) \notin InputFiles) =>
       /\ pc' = "main"
       /\ argv' = Tail(argv)
       /\ exception' = None
       /\ exitCode' = -1
       /\ UNCHANGED <<csvFiles, downloads, created, idsRead>>]_vars

\* the first name was passed over without a mapping file, the second list is
\* being migrated
C5_Witness ==
  /\ argIdx = 2
  /\ pc = "record"
  /\ DOMAIN csvFiles = {csv}

\* a rendition whose url is there and begins with http
HasHttpUrl(r) ==
  /\ r.url # NoUrl
  /\ Len(r.url) >= 4
  /\ r.url[1] = "h" /\ r.url[2] = "t" /\ r.url[3] = "t" /\ r.url[4] = "p"

Candidates(rs) == {i \in 1 .. Len(rs) : HasHttpUrl(rs[i])}

\* rs[i] is the first of the largest candidates of rs
FirstLargest(rs, i) ==
  /\ i \in Candidates(rs)
  /\ \A j \in Candidates(rs) :
       /\ rs[j].size <= rs[i].size
       /\ j < i => rs[j].size < rs[i].size

\* C6: the selection step picks the first of the largest renditions whose url
\* is there and begins with http, and gives the video up exactly when there
\* is no such rendition.
C6_SelectsFirstLargestHttp ==
  [][pc = "select" =>
       IF Candidates(v.renditions) = {}
       THEN /\ pc' = "loop"
            /\ v' = NoVideo
            /\ best_rendition' = NoRendition
       ELSE /\ pc' = "download"
            /\ v' = v
            /\ \E i \in Candidates(v.renditions) :
                 /\ FirstLargest(v.renditions, i)
                 /\ best_rendition' = v.renditions[i]]_vars

\* two candidates tie for the largest size behind a larger rendition that is
\* no candidate, and the first of the two is picked
C6_Witness ==
  /\ pc = "download"
  /\ Len(v.renditions) = 3
  /\ v.renditions[1].url = RtmpUrl /\ v.renditions[1].size = 50
  /\ v.renditions[2].url = HttpsUrl /\ v.renditions[2].size = 30
  /\ v.renditions[3].url = HttpUrl /\ v.renditions[3].size = 30
  /\ best_rendition = v.renditions[2]

StageOrder == <<"FETCHING", "SELECTING_RENDITION", "DOWNLOADING", "UPLOADING", "DONE">>

\* t is a run through the stages in order, each once, that may end in SKIPPED
\* from any stage before DONE
WellStaged(t) ==
  \E k \in 1 .. Len(StageOrder) :
    \/ t = SubSeq(StageOrder, 1, k)
    \/ k < Len(StageOrder) /\ t = Append(SubSeq(StageOrder, 1, k), "SKIPPED")

\* C7: the transfer of a line goes through the stages in order, each once; it
\* is uploaded only with its download on disk; and whenever no transfer is
\* under way, the last one ended in DONE or SKIPPED.
C7_EveryTransferEndsDoneOrSkipped ==
  /\ trace # <<>> => WellStaged(trace)
  /\ pc = "upload" => v.filename \in DOMAIN downloads
  /\ (trace # <<>> /\ pc \notin {"select", "download", "read", "upload"})
       => Last(trace) \in {"DONE", "SKIPPED"}

\* the last transfer ended without a row
LastFailed ==
  /\ pc \in {"loop", "crashed"}
  /\ outcomes # <<>>
  /\ Last(outcomes) \in {"NotFound", "NoRendition", "TransportError", "Rejected"}

\* the mapping file has no row but those of the lines migrated
NoRowForFailed == Len(csvFiles[csv]) = 1 + Len(MigratedUpTo(Len(outcomes)))

\* C8 as claimed: a transfer that ended not found, without rendition, on a
\* transport error or rejected left the download directory as it was when the
\* transfer began, and wrote no row.
C8_FailedLeavesNoFile ==
  LastFailed => (downloads = dirBefore /\ NoRowForFailed)

\* C8 as the script has it: a transfer that ended not found, without rendition
\* or on an error of urlopen left the download directory as it was; a
\* rejected one left the file it downloaded, under the name of its id, and no
\* other change; none of them wrote a row.
C8_FailedLeavesOnlyItsDownload ==
  LastFailed =>
    /\ NoRowForFailed
    /\ Last(outcomes) # "Rejected" => downloads = dirBefore
    /\ Last(outcomes) = "Rejected" =>
         \E ext \in {".mp4", ".m2ts", ""} :
           LET name == "./downloads/" \o lines[Len(outcomes)] \o ext
           IN  /\ name \in DOMAIN downloads
               /\ downloads[name] # <<>>
               /\ downloads = WriteFile(dirBefore, name, downloads[name])

C8_Witness ==
  /\ pc = "loop"
  /\ outcomes = <<"Migrated", "Rejected">>
  /\ lines[1] # lines[2]
  /\ DOMAIN dirBefore = {"./downloads/" \o lines[1] \o ".mp4"}
  /\ DOMAIN downloads = DOMAIN dirBefore \cup {"./downloads/" \o lines[2] \o ".mp4"}
  /\ Len(csvFiles[csv]) = 2

\* C9: every row of a mapping file has a new id that is there and is not its
\* old id; the rows of the open file carry the ids of the lines migrated, each
\* with the id the destination gave on that very creation; and the video
\* whose row is about to be written went to the destination without id and
\* without renditions and has the id the destination gave it.
C9_RowPairsOldWithCreatedId ==
  /\ \A n \in DOMAIN csvFiles : \A i \in 2 .. Len(csvFiles[n]) :
       /\ csvFiles[n][i][2] \notin {"", "None"}
       /\ csvFiles[n][i][2] # csvFiles[n][i][1]
  /\ csv # None =>
       LET rows == csvFiles[csv]
           pending == IF pc = "record" THEN 1 ELSE 0
       IN  /\ OldIds(Tail(rows)) = MigratedUpTo(Len(outcomes))
           /\ \A i \in 2 .. Len(rows) :
                rows[i][2] = CreatedId(created - pending - (Len(rows) - i))
  /\ pc = "record" =>
       /\ v.id = CreatedId(created)
       /\ v.id # lines[lineIdx]
       /\ v.renditions = NoRenditions
       /\ v.connection = "NEWCONN"

\* the same id migrated twice: two rows with two new ids, and the id of the
\* video set back to the old one
C9_Witness ==
  /\ pc = "loop"
  /\ lines = <<"B", "B">>
  /\ csvFiles[csv] = <<HeaderRow, <<"B", "N1">>, <<"B", "N2">>>>
  /\ v.id = "B"

\* the length of a file held as chunks
RECURSIVE FileLength(_)
FileLength(fp) == IF fp = <<>> THEN 0 ELSE Head(fp).len + FileLength(Tail(fp))

\* fp holds the first bytes of the stream in order, in non-empty chunks of at
\* most CHUNK bytes
InOrder(fp) ==
  \A i \in 1 .. Len(fp) :
    /\ fp[i].len \in 1 .. CHUNK
    /\ fp[i].off = FileLength(SubSeq(fp, 1, i - 1))

\* C10: the step that reads a response of N bytes leaves them all, in order,
\* in the file named by the line's id with .mp4 for H264, .m2ts for M2TS and
\* no extension otherwise, makes it the video's file and changes no other
\* file.
C10_FileHoldsStreamUnderCodecName ==
  [][pc = "read" =>
       LET codec == best_rendition.video_codec
           ext == CASE codec = "H264" -> ".mp4"
                    [] codec = "M2TS" -> ".m2ts"
                    [] OTHER -> ""
           name == "./downloads/" \o lines[lineIdx] \o ext
       IN  /\ name \in DOMAIN downloads'
           /\ InOrder(downloads'[name])
           /\ FileLength(downloads'[name]) = req.len
           /\ downloads' = WriteFile(downloads, name, downloads'[name])
           /\ v'.filename = name
           /\ pc' = "upload"]_vars

\* a stream of two chunks and a byte, delivered in short reads, is on disk
\* over the stale file of that name
C10_Witness ==
  /\ pc = "upload"
  /\ dirBefore # NoFiles
  /\ v.filename = "./downloads/A.m2ts"
  /\ Len(downloads[v.filename]) > 3
  /\ FileLength(downloads[v.filename]) = 2 * CHUNK + 1

====
